---- MODULE Spec2Model ----
(***************************************************************************)
(* Canvas Builder: the editing session of page.tsx (elements, history,     *)
(* historyIndex, activeTool) together with the pointer state machine of    *)
(* the HTML5-canvas InteractiveCanvas component (isDrawing, isDragging,    *)
(* isResizing, startPos, currentPos, currentPath, editingText,             *)
(* selectedIndex, initialElementState).                                    *)
(*                                                                         *)
(* Conventions.  Array indices are 0-based as in the source; the TLA+      *)
(* sequence position of index i is i+1.  JavaScript null is Null for       *)
(* objects, "null" for the isResizing string and -1 for selectedIndex.     *)
(* Every handler runs against the state of the last render, so a handler   *)
(* is one atomic action; the only closure that outlives a render is the    *)
(* one captured by onImageUpload, which is kept in pendingUpload.          *)
(***************************************************************************)
EXTENDS Integers, Sequences, FiniteSets, TLC

\* ------------------------------------------------------------------ bounds
MaxHistory == 4       \* snapshots kept in history (commits are guarded by it)
MaxGestures == 2      \* pointerDown events and file uploads in a behaviour
MaxPath == 2          \* points of the pencil path being captured

\* ------------------------------------------------------- program constants
HANDLE_SIZE == 8
DefaultFontSize == 24
PromptImageSize == 150
MaxUploadWidth == 400
DefaultStrokeWidth == 2
SelectHitPadding == 10
EraserHitPadding == 5
MinShapeSize == 5

currentColor == "#000000"
currentStrokeWidth == DefaultStrokeWidth

\* ------------------------------------------------------------------ values
Null == [null |-> TRUE]
\* an empty slot of a sparse array (elements[i] reads undefined, forEach and
\* filter skip it) and the undefined a spread copy turns it into
Hole == [type |-> "hole"]
Undefined == [type |-> "undefined"]
NaN == "NaN"

Point(px, py) == [x |-> px, y |-> py]

\* Pointer positions the environment can deliver.  The set is chosen so that
\* every distance between two of its points is an integer (multiples of the
\* 3-4-5 triangle) and every horizontal difference is even, which keeps
\* Math.sqrt and dx / 2 exact in integer arithmetic.  It holds a pair 4 x 3
\* apart (below the 5-unit minimum) and pairs further apart than a handle.
Points == {Point(0, 0), Point(4, 3), Point(24, 18)}

Tools == {"select", "rect", "circle", "text", "image", "pencil", "eraser"}
Handles == {"nw", "ne", "sw", "se"}

\* values the text <input> can hold
TextValues == {<<>>, <<" ">>, <<"H", "i">>}
\* answers of prompt('Enter Image URL:'); "" stands for Cancel and for empty
PromptAnswers == {"", "http://img"}
\* natural sizes of uploadable JPEG files
UploadSizes == {[w |-> 800, h |-> 600]}

Abs(n) == IF n < 0 THEN -n ELSE n
\* Math.sqrt on the perfect squares the pointer grid produces
Sqrt(n) == CHOOSE r \in 0..n : r * r = n

\* ---------------------------------------------------------------- elements
RectEl(px, py, w, h, c) ==
    [type |-> "rect", x |-> px, y |-> py, width |-> w, height |-> h, color |-> c]
CircleEl(px, py, r, c) ==
    [type |-> "circle", x |-> px, y |-> py, radius |-> r, color |-> c]
TextEl(px, py, t, fs, c) ==
    [type |-> "text", x |-> px, y |-> py, text |-> t, fontSize |-> fs, color |-> c]
ImageEl(px, py, w, h, s) ==
    [type |-> "image", x |-> px, y |-> py, width |-> w, height |-> h, src |-> s]
PathEl(pts, c, sw) ==
    [type |-> "path", points |-> pts, color |-> c, strokeWidth |-> sw]

IsElement(el) == el.type \in {"rect", "circle", "text", "image", "path"}

\* ------------------------------------------------------- array primitives
\* [...arr]: a dense copy, empty slots become undefined
Spread(arr) == [i \in 1..Len(arr) |-> IF arr[i] = Hole THEN Undefined ELSE arr[i]]

\* copy[index] = v on a JavaScript array: replaces inside the array, appends
\* at its end, and leaves empty slots when index lies beyond the end
SetIndex(arr, index, v) ==
    [i \in 1..(IF index + 1 > Len(arr) THEN index + 1 ELSE Len(arr)) |->
        IF i = index + 1 THEN v
        ELSE IF i <= Len(arr) THEN arr[i]
        ELSE Hole]

\* arr.filter((_, i) => i !== index): the callback is not called for empty
\* slots, so they are dropped too
RECURSIVE FilterOut(_, _, _)
FilterOut(arr, index, i) ==
    IF i > Len(arr) THEN <<>>
    ELSE IF i = index + 1 \/ arr[i] = Hole THEN FilterOut(arr, index, i + 1)
    ELSE <<arr[i]>> \o FilterOut(arr, index, i + 1)

\* a hit test on the box as stored, without normalizing negative sizes
HitBoxRaw(pos, el) ==
    /\ pos.x >= el.x /\ pos.x <= el.x + el.width
    /\ pos.y >= el.y /\ pos.y <= el.y + el.height

\* a hit test that accepts a pixel of tolerance around the box
HitBoxPadded(pos, el) ==
    LET bx == IF el.width < 0 THEN el.x + el.width ELSE el.x
        by == IF el.height < 0 THEN el.y + el.height ELSE el.y
        w == Abs(el.width)
        h == Abs(el.height)
    IN  /\ pos.x >= bx - 1 /\ pos.x <= bx + w + 1
        /\ pos.y >= by - 1 /\ pos.y <= by + h + 1

\* --------------------------------------------------------------- hit tests
\* rect / image: point in the normalized box
HitBox(pos, el) ==
    LET bx == IF el.width < 0 THEN el.x + el.width ELSE el.x
        by == IF el.height < 0 THEN el.y + el.height ELSE el.y
        w == Abs(el.width)
        h == Abs(el.height)
    IN  pos.x >= bx /\ pos.x <= bx + w /\ pos.y >= by /\ pos.y <= by + h

\* circle: dist <= radius, with dist = sqrt(dx^2 + dy^2) >= 0
HitCircle(pos, el) ==
    LET d2 == (pos.x - el.x) * (pos.x - el.x) + (pos.y - el.y) * (pos.y - el.y)
    IN  el.radius >= 0 /\ d2 <= el.radius * el.radius

\* text: x in [x, x + fontSize * length * 0.6], y in [y - fontSize, y]
HitText(pos, el) ==
    /\ pos.x >= el.x
    /\ 10 * (pos.x - el.x) <= 6 * el.fontSize * Len(el.text)
    /\ pos.y <= el.y
    /\ pos.y >= el.y - el.fontSize

\* 4 * (squared distance from p to the segment a-b) <= w^2, cross-multiplied
NearSegment(p, a, b, w) ==
    LET abx == b.x - a.x
        aby == b.y - a.y
        apx == p.x - a.x
        apy == p.y - a.y
        bpx == p.x - b.x
        bpy == p.y - b.y
        l2 == abx * abx + aby * aby
        dot == apx * abx + apy * aby
        ap2 == apx * apx + apy * apy
        bp2 == bpx * bpx + bpy * bpy
    IN  IF l2 = 0 \/ dot <= 0 THEN 4 * ap2 <= w * w
        ELSE IF dot >= l2 THEN 4 * bp2 <= w * w
        ELSE 4 * (ap2 * l2 - dot * dot) <= w * w * l2

\* ctx.isPointInStroke on moveTo(points[0]) followed by lineTo(p) for every
\* point: the stroke covers what lies within lineWidth / 2 of the polyline.
\* A polyline of zero length is stroked (as a dot) only under round caps.
HitPath(pos, el, padding, roundCap) ==
    LET w == el.strokeWidth + padding
        pts == el.points
        n == Len(pts)
        degenerate == \A i \in 1..n : pts[i] = pts[1]
    IN  /\ n > 0
        /\ IF degenerate THEN roundCap /\ NearSegment(pos, pts[1], pts[1], w)
           ELSE \E i \in 1..(n - 1) : NearSegment(pos, pts[i], pts[i + 1], w)

\* the hit test of the select branch of handleMouseDown
SelectHit(pos, el, roundCap) ==
    CASE el.type \in {"rect", "image"} -> HitBox(pos, el)
      [] el.type = "circle" -> HitCircle(pos, el)
      [] el.type = "text" -> HitText(pos, el)
      [] el.type = "path" -> HitPath(pos, el, SelectHitPadding, roundCap)

\* the hit test of the eraser branch of handleMouseDown
EraserHit(pos, el, roundCap) ==
    CASE el.type \in {"rect", "image"} -> HitBox(pos, el)
      [] el.type = "circle" -> HitCircle(pos, el)
      [] el.type = "text" -> HitText(pos, el)
      [] el.type = "path" -> HitPath(pos, el, EraserHitPadding, roundCap)

\* getResizeHandle: the first of nw, ne, sw, se whose zone holds (x, y);
\* "null" when there is none or the element is a path or a text
getResizeHandle(px, py, el) ==
    IF el.type \in {"path", "text"} THEN "null"
    ELSE
      LET right == el.x + (IF el.type = "circle" THEN el.radius * 2 ELSE el.width)
          bottom == el.y + (IF el.type = "circle" THEN el.radius * 2 ELSE el.height)
          In(hx, hy) == /\ px >= hx - HANDLE_SIZE /\ px <= hx + HANDLE_SIZE
                        /\ py >= hy - HANDLE_SIZE /\ py <= hy + HANDLE_SIZE
      IN  IF In(el.x, el.y) THEN "nw"
          ELSE IF In(right, el.y) THEN "ne"
          ELSE IF In(el.x, bottom) THEN "sw"
          ELSE IF In(right, bottom) THEN "se"
          ELSE "null"

\* the select scan running from index 0 upwards: the lowest element hit
ScanSelectFromBottom(els, pos, i, roundCap) ==
    LET hits == {k \in 0..i : IsElement(els[k + 1])
                                /\ SelectHit(pos, els[k + 1], roundCap)}
    IN  IF \E k \in 0..i : ~IsElement(els[k + 1]) THEN -2
        ELSE IF hits = {} THEN -1
        ELSE CHOOSE k \in hits : \A m \in hits : k <= m

\* The backward scans of handleMouseDown.  Reading .type of an empty or
\* undefined slot throws, which ends the handler: the scan answers the index
\* of the first hit from the top, -1 for no hit, -2 for the TypeError.
RECURSIVE ScanSelect(_, _, _, _)
ScanSelect(els, pos, i, roundCap) ==
    IF i < 0 THEN -1
    ELSE IF ~IsElement(els[i + 1]) THEN -2
    ELSE IF SelectHit(pos, els[i + 1], roundCap) THEN i
    ELSE ScanSelect(els, pos, i - 1, roundCap)

RECURSIVE ScanEraser(_, _, _, _)
ScanEraser(els, pos, i, roundCap) ==
    IF i < 0 THEN -1
    ELSE IF ~IsElement(els[i + 1]) THEN -2
    ELSE IF EraserHit(pos, els[i + 1], roundCap) THEN i
    ELSE ScanEraser(els, pos, i - 1, roundCap)

\* ------------------------------------------------------------------- state
VARIABLES
    elements,             \* page.tsx: the displayed scene
    history,              \* page.tsx: the snapshots
    historyIndex,         \* page.tsx: the cursor, 0-based
    activeTool,           \* page.tsx: the tool handed to the canvas
    pendingUpload,        \* the closure of an onImageUpload whose image is loading
    isDrawing, isDragging, isResizing,
    startPos, currentPos, currentPath,
    editingText,          \* Null or [x, y, value]
    selectedIndex,        \* -1 or an index into elements
    initialElementState,  \* Null or the element as it was at pointerDown
    blurDue,              \* a mousedown took the focus from the text input
    lineCapRound,         \* the 2-D context's lineCap, which outlives a redraw
    crashed,              \* the redraw effect threw: the page is unmounted
    gestures,             \* pointerDowns and uploads so far (bounds the behaviour)
    canvasSize,           \* page.tsx: [width, height] of the canvas
    exportReq,            \* Null or the POST /export/pdf request in flight
    exportRes,            \* Null or what the server did with exportReq
    exportOutcome,        \* what handleExport last showed: none, download, alert
    serverUp,             \* server.js: the process is running
    exports               \* requests sent so far (bounds the behaviour)

pageVars == <<elements, history, historyIndex>>
canvasVars == <<isDrawing, isDragging, isResizing, startPos, currentPos,
                currentPath, editingText, selectedIndex, initialElementState>>
vars == <<elements, history, historyIndex, activeTool, pendingUpload,
          isDrawing, isDragging, isResizing, startPos, currentPos, currentPath,
          editingText, selectedIndex, initialElementState, blurDue,
          lineCapRound, crashed, gestures, canvasSize, exportReq, exportRes,
          exportOutcome, serverUp, exports>>
exportVars == <<canvasSize, exportReq, exportRes, exportOutcome, serverUp, exports>>

\* no export has been asked for; the canvas has the size page.tsx starts with
InitExportVars ==
    /\ canvasSize = [width |-> 800, height |-> 600]
    /\ exportReq = Null
    /\ exportRes = Null
    /\ exportOutcome = "none"
    /\ serverUp = TRUE
    /\ exports = 0

Init ==
    /\ elements = <<>>
    /\ history = <<(<<>>)>>
    /\ historyIndex = 0
    /\ activeTool = "select"
    /\ pendingUpload = Null
    /\ isDrawing = FALSE
    /\ isDragging = FALSE
    /\ isResizing = "null"
    /\ startPos = Null
    /\ currentPos = Null
    /\ currentPath = <<>>
    /\ editingText = Null
    /\ selectedIndex = -1
    /\ initialElementState = Null
    /\ blurDue = FALSE
    /\ lineCapRound = FALSE
    /\ crashed = FALSE
    /\ gestures = 0
    /\ InitExportVars

\* ---------------------------------------------------------------- page.tsx
\* The three values a handler closure of Home reads.  A handler computes the
\* values it hands to setElements, setHistory and setHistoryIndex from its
\* closure; SetPage is the render that follows.
Closure == [elements |-> elements, history |-> history, historyIndex |-> historyIndex]

SetPage(p) ==
    /\ Len(p.history) <= MaxHistory
    /\ elements' = p.elements
    /\ history' = p.history
    /\ historyIndex' = p.historyIndex

\* addToHistory with setHistoryIndex(newHistory.length): the cursor one past the end
addToHistoryCursorPastEnd(cl, newElements) ==
    LET newHistory == Append(SubSeq(cl.history, 1, cl.historyIndex + 1), newElements)
    IN  [elements |-> newElements,
         history |-> newHistory,
         historyIndex |-> Len(newHistory)]

\* addToHistory: history.slice(0, historyIndex + 1), push(newElements)
addToHistory(cl, newElements) ==
    LET newHistory == Append(SubSeq(cl.history, 1, cl.historyIndex + 1), newElements)
    IN  [elements |-> newElements,
         history |-> newHistory,
         historyIndex |-> Len(newHistory) - 1]

handleAddElement(cl, newEl) ==
    addToHistory(cl, Append(Spread(cl.elements), newEl))

\* handleRemoveElement dropping the element and everything above it
handleRemoveElementAndAbove(cl, index) ==
    addToHistory(cl, SubSeq(cl.elements, 1, index))

handleRemoveElement(cl, index) ==
    addToHistory(cl, FilterOut(cl.elements, index, 1))

\* handleUndo without its setElements: the cursor moves, the scene stays
handleUndoKeepsScene(cl) ==
    IF cl.historyIndex > 0
    THEN [cl EXCEPT !.historyIndex = cl.historyIndex - 1]
    ELSE cl

handleUndo(cl) ==
    IF cl.historyIndex > 0
    THEN [cl EXCEPT !.historyIndex = cl.historyIndex - 1,
                    !.elements = cl.history[cl.historyIndex]]
    ELSE cl

\* handleRedo reading history[historyIndex] instead of history[newIndex]
handleRedoOldIndex(cl) ==
    IF cl.historyIndex < Len(cl.history) - 1
    THEN [cl EXCEPT !.historyIndex = cl.historyIndex + 1,
                    !.elements = cl.history[cl.historyIndex + 1]]
    ELSE cl

\* handleRedo without its setElements: the cursor moves, the scene stays
handleRedoKeepsScene(cl) ==
    IF cl.historyIndex < Len(cl.history) - 1
    THEN [cl EXCEPT !.historyIndex = cl.historyIndex + 1]
    ELSE cl

handleRedo(cl) ==
    IF cl.historyIndex < Len(cl.history) - 1
    THEN [cl EXCEPT !.historyIndex = cl.historyIndex + 1,
                    !.elements = cl.history[cl.historyIndex + 2]]
    ELSE cl

\* clearCanvas emptying the scene without committing it
clearCanvasInPlace(cl) == [cl EXCEPT !.elements = <<>>]

clearCanvas(cl) == addToHistory(cl, <<>>)

\* onElementUpdate writing elements[index] = newEl without the copy: the array
\* is the one stored at history[historyIndex], which changes with it
onElementUpdateInPlace(cl, index, newEl) ==
    [cl EXCEPT !.elements = SetIndex(cl.elements, index, newEl),
               !.history[cl.historyIndex + 1] = SetIndex(cl.elements, index, newEl)]

\* onElementUpdate going through addToHistory on every frame
onElementUpdateCommits(cl, index, newEl) ==
    addToHistory(cl, SetIndex(Spread(cl.elements), index, newEl))

\* onElementUpdate: the scene changes, the history does not
onElementUpdate(cl, index, newEl) ==
    [cl EXCEPT !.elements = SetIndex(Spread(cl.elements), index, newEl)]

\* The toolbar is worked with the pointer.  The pointer reaches it by leaving
\* the canvas, which runs handleMouseUp (onMouseLeave), and a press on it
\* takes the focus out of the text input, which runs onBlur: no gesture is in
\* progress and no text is being edited when a toolbar handler runs.
ToolbarReady ==
    /\ ~crashed /\ ~blurDue
    /\ editingText = Null
    /\ ~isDrawing /\ ~isDragging /\ isResizing = "null"

onUndo ==
    /\ ToolbarReady
    /\ SetPage(handleUndo(Closure))
    /\ UNCHANGED <<activeTool, pendingUpload, canvasVars, blurDue, gestures>>

onRedo ==
    /\ ToolbarReady
    /\ SetPage(handleRedo(Closure))
    /\ UNCHANGED <<activeTool, pendingUpload, canvasVars, blurDue, gestures>>

onClear ==
    /\ ToolbarReady
    /\ SetPage(clearCanvas(Closure))
    /\ UNCHANGED <<activeTool, pendingUpload, canvasVars, blurDue, gestures>>

setActiveTool(t) ==
    /\ ToolbarReady
    /\ activeTool' = t
    /\ UNCHANGED <<pageVars, pendingUpload, canvasVars, blurDue, gestures>>

\* Controls.handleFileChange: a JPEG goes to onImageUpload, whose callbacks
\* keep the handleAddElement of this render; the tool becomes select
handleFileChange(file) ==
    /\ ToolbarReady
    /\ activeTool = "image"
    /\ pendingUpload = Null
    /\ pendingUpload' = IF file.jpeg
                        THEN [closure |-> Closure, w |-> file.w, h |-> file.h]
                        ELSE Null
    /\ activeTool' = "select"
    /\ gestures < MaxGestures
    /\ gestures' = gestures + 1
    /\ UNCHANGED <<pageVars, canvasVars, blurDue>>

\* img.onload of onImageUpload: scale down to 400 wide, add at (50, 50)
UploadedImage(w, h) ==
    IF w > MaxUploadWidth
    THEN ImageEl(50, 50, MaxUploadWidth, (MaxUploadWidth * h) \div w, "data:")
    ELSE ImageEl(50, 50, w, h, "data:")

imageOnLoad ==
    /\ ~crashed
    /\ pendingUpload # Null
    /\ SetPage(handleAddElement(pendingUpload.closure,
                                UploadedImage(pendingUpload.w, pendingUpload.h)))
    /\ pendingUpload' = Null
    /\ UNCHANGED <<activeTool, canvasVars, blurDue, gestures>>

\* ------------------------------------------------------ InteractiveCanvas
CanvasReady == ~crashed /\ ~blurDue

\* elements[selectedIndex] is truthy
SelectedElementExists ==
    /\ selectedIndex # -1
    /\ selectedIndex < Len(elements)
    /\ IsElement(elements[selectedIndex + 1])

\* handleMouseDown, select tool
mouseDownSelect(pos) ==
    LET hit == ScanSelect(elements, pos, Len(elements) - 1, lineCapRound)
        handle == IF SelectedElementExists
                  THEN getResizeHandle(pos.x, pos.y, elements[selectedIndex + 1])
                  ELSE "null"
    IN  IF handle # "null"
        THEN /\ isResizing' = handle
             /\ startPos' = pos
             /\ initialElementState' = elements[selectedIndex + 1]
             /\ UNCHANGED <<isDrawing, isDragging, currentPos, currentPath,
                            editingText, selectedIndex>>
        ELSE IF hit >= 0
        THEN /\ selectedIndex' = hit
             /\ isDragging' = TRUE
             /\ startPos' = pos
             /\ initialElementState' = elements[hit + 1]
             /\ UNCHANGED <<isDrawing, isResizing, currentPos, currentPath,
                            editingText>>
        ELSE IF hit = -1
        THEN /\ selectedIndex' = -1
             /\ UNCHANGED <<isDrawing, isDragging, isResizing, startPos, currentPos,
                            currentPath, editingText, initialElementState>>
        ELSE UNCHANGED canvasVars

\* handleMouseDown, eraser tool
mouseDownEraser(pos) ==
    LET hit == ScanEraser(elements, pos, Len(elements) - 1, lineCapRound)
    IN  /\ IF hit >= 0
           THEN SetPage(handleRemoveElement(Closure, hit))
           ELSE UNCHANGED pageVars
        /\ UNCHANGED canvasVars

\* handleMouseDown, the drawing tools; url is the answer of prompt()
mouseDownDraw(pos, url) ==
    /\ startPos' = pos
    /\ currentPos' = pos
    /\ currentPath' = IF activeTool = "pencil" THEN <<pos>> ELSE currentPath
    /\ editingText' = IF activeTool = "text"
                      THEN [x |-> pos.x, y |-> pos.y, value |-> <<>>]
                      ELSE editingText
    /\ isDrawing' = ~(activeTool = "text" \/ (activeTool = "image" /\ url # ""))
    /\ IF activeTool = "image" /\ url # ""
       THEN SetPage(handleAddElement(Closure,
                ImageEl(pos.x, pos.y, PromptImageSize, PromptImageSize, url)))
       ELSE UNCHANGED pageVars
    /\ UNCHANGED <<isDragging, isResizing, selectedIndex, initialElementState>>

handleMouseDown(pos, url) ==
    /\ CanvasReady
    /\ gestures < MaxGestures
    /\ gestures' = gestures + 1
    /\ activeTool = "image" \/ url = ""
    /\ CASE activeTool = "select" -> mouseDownSelect(pos) /\ UNCHANGED pageVars
         [] activeTool = "eraser" -> mouseDownEraser(pos)
         [] OTHER -> mouseDownDraw(pos, url)
    \* a mousedown on the canvas blurs the focused input unless the handler
    \* called preventDefault, which only the text tool does
    /\ blurDue' = (editingText # Null /\ activeTool # "text")
    /\ UNCHANGED <<activeTool, pendingUpload>>

\* the drag update adding dx to both x and y
DraggedSameDelta(el, dx, dy) ==
    IF el.type = "path"
    THEN [f \in DOMAIN el \cup {"x", "y"} |-> IF f \in {"x", "y"} THEN NaN ELSE el[f]]
    ELSE [el EXCEPT !.x = @ + dx, !.y = @ + dx]

\* { ...initialElementState, x: x + dx, y: y + dy }: a path has no x and y,
\* and undefined + dx is NaN
Dragged(el, dx, dy) ==
    IF el.type = "path"
    THEN [f \in DOMAIN el \cup {"x", "y"} |-> IF f \in {"x", "y"} THEN NaN ELSE el[f]]
    ELSE [el EXCEPT !.x = @ + dx, !.y = @ + dy]

\* the resize of handleMouseMove from the element as it was at pointerDown
Resized(el, handle, dx, dy) ==
    IF el.type \in {"rect", "image"}
    THEN CASE handle = "se" -> [el EXCEPT !.width = @ + dx, !.height = @ + dy]
           [] handle = "sw" -> [el EXCEPT !.x = @ + dx, !.width = @ - dx,
                                         !.height = @ + dy]
           [] handle = "nw" -> [el EXCEPT !.x = @ + dx, !.y = @ + dy,
                                         !.width = @ - dx, !.height = @ - dy]
           [] handle = "ne" -> [el EXCEPT !.y = @ + dy, !.width = @ + dx,
                                         !.height = @ - dy]
           [] OTHER -> el
    ELSE [el EXCEPT !.radius = @ + dx \div 2]

handleMouseMove(pos) ==
    /\ CanvasReady
    /\ IF isDragging /\ selectedIndex # -1 /\ startPos # Null
          /\ initialElementState # Null
       THEN /\ IF activeTool # "pencil"
               THEN LET el == Dragged(initialElementState,
                                      pos.x - startPos.x, pos.y - startPos.y)
                    IN  SetPage(onElementUpdate(Closure, selectedIndex, el))
               ELSE UNCHANGED pageVars
            /\ UNCHANGED canvasVars
       ELSE IF isResizing # "null" /\ selectedIndex # -1 /\ startPos # Null
               /\ initialElementState # Null
       THEN /\ IF initialElementState.type \in {"rect", "image", "circle"}
               THEN LET el == Resized(initialElementState, isResizing,
                                      pos.x - startPos.x, pos.y - startPos.y)
                    IN  SetPage(onElementUpdate(Closure, selectedIndex, el))
               ELSE UNCHANGED pageVars
            /\ UNCHANGED canvasVars
       ELSE IF ~isDrawing
       THEN UNCHANGED <<pageVars, canvasVars>>
       ELSE /\ currentPos' = pos
            /\ IF activeTool = "pencil"
               THEN /\ Len(currentPath) < MaxPath
                    /\ currentPath' = Append(currentPath, pos)
               ELSE UNCHANGED currentPath
            /\ UNCHANGED <<pageVars, isDrawing, isDragging, isResizing, startPos,
                           editingText, selectedIndex, initialElementState>>
    /\ UNCHANGED <<activeTool, pendingUpload, blurDue, gestures>>

\* Math.sqrt(dx^2 + dy^2) between two pointer positions
Distance(a, b) == Sqrt((b.x - a.x) * (b.x - a.x) + (b.y - a.y) * (b.y - a.y))

\* handleMouseUp committing the path from its second point on
DrawnElementSkipsFirst ==
    IF activeTool = "pencil"
    THEN PathEl(SubSeq(currentPath, 2, Len(currentPath)), currentColor,
                currentStrokeWidth)
    ELSE IF activeTool = "rect" /\ startPos # Null /\ currentPos # Null
    THEN RectEl(startPos.x, startPos.y, currentPos.x - startPos.x,
                currentPos.y - startPos.y, currentColor)
    ELSE IF activeTool = "circle" /\ startPos # Null /\ currentPos # Null
    THEN CircleEl(startPos.x, startPos.y, Distance(startPos, currentPos),
                  currentColor)
    ELSE Null

\* the element handleMouseUp hands to onElementAdd, Null when it adds none
DrawnElement ==
    IF activeTool = "pencil"
    THEN PathEl(currentPath, currentColor, currentStrokeWidth)
    ELSE IF activeTool = "rect" /\ startPos # Null /\ currentPos # Null
    THEN RectEl(startPos.x, startPos.y, currentPos.x - startPos.x,
                currentPos.y - startPos.y, currentColor)
    ELSE IF activeTool = "circle" /\ startPos # Null /\ currentPos # Null
    THEN CircleEl(startPos.x, startPos.y, Distance(startPos, currentPos),
                  currentColor)
    ELSE Null

\* handleMouseUp, also bound to onMouseLeave
handleMouseUp ==
    /\ CanvasReady
    /\ IF isDragging \/ isResizing # "null"
       THEN /\ isDragging' = FALSE
            /\ isResizing' = "null"
            /\ startPos' = Null
            /\ initialElementState' = Null
            /\ UNCHANGED <<pageVars, isDrawing, currentPos, currentPath,
                           editingText, selectedIndex>>
       ELSE IF ~isDrawing
       THEN UNCHANGED <<pageVars, canvasVars>>
       ELSE /\ isDrawing' = FALSE
            /\ IF DrawnElement # Null
               THEN SetPage(handleAddElement(Closure, DrawnElement))
               ELSE UNCHANGED pageVars
            /\ currentPath' = IF activeTool = "pencil" THEN <<>> ELSE currentPath
            /\ startPos' = Null
            /\ currentPos' = Null
            /\ UNCHANGED <<isDragging, isResizing, editingText, selectedIndex,
                           initialElementState>>
    /\ UNCHANGED <<activeTool, pendingUpload, blurDue, gestures>>

\* value.trim(): the value without leading and trailing blanks
RECURSIVE TrimLeft(_)
TrimLeft(v) == IF v # <<>> /\ Head(v) = " " THEN TrimLeft(Tail(v)) ELSE v
RECURSIVE TrimRight(_)
TrimRight(v) ==
    IF v # <<>> /\ v[Len(v)] = " " THEN TrimRight(SubSeq(v, 1, Len(v) - 1)) ELSE v
\* if (editingText.value) without trim(): a buffer of blanks counts as text
TrimNothing(v) == v

Trim(v) == TrimRight(TrimLeft(v))

\* onChange of the text input
textOnChange(v) ==
    /\ CanvasReady
    /\ editingText # Null
    /\ editingText' = [editingText EXCEPT !.value = v]
    /\ UNCHANGED <<pageVars, activeTool, pendingUpload, isDrawing, isDragging,
                   isResizing, startPos, currentPos, currentPath, selectedIndex,
                   initialElementState, blurDue, gestures>>

\* onBlur of the text input (Enter calls blur())
textOnBlur ==
    /\ ~crashed
    /\ editingText # Null
    /\ IF Trim(editingText.value) # <<>>
       THEN SetPage(handleAddElement(Closure,
                TextEl(editingText.x, editingText.y, editingText.value,
                       DefaultFontSize, currentColor)))
       ELSE UNCHANGED pageVars
    /\ editingText' = Null
    /\ blurDue' = FALSE
    /\ UNCHANGED <<activeTool, pendingUpload, isDrawing, isDragging, isResizing,
                   startPos, currentPos, currentPath, selectedIndex,
                   initialElementState, gestures>>

\* ----------------------------------------------------------------- redraw
\* The redraw effect runs after every change.  drawElement reads .type of
\* every slot forEach visits, so an undefined slot throws; stroking a path of
\* two or more points, or the pencil preview, leaves lineCap at 'round'.
\* ctx.arc throws IndexSizeError for a negative radius.
RedrawThrows(els) ==
    \E i \in 1..Len(els) :
        \/ els[i] = Undefined
        \/ els[i].type = "circle" /\ els[i].radius < 0

RedrawSetsRoundCap(els, drawing, tool, path) ==
    \/ \E i \in 1..Len(els) : els[i].type = "path" /\ Len(els[i].points) >= 2
    \/ drawing /\ tool = "pencil" /\ Len(path) > 1

Redraw ==
    /\ crashed' = (crashed \/ RedrawThrows(elements'))
    /\ lineCapRound' = (lineCapRound \/
           RedrawSetsRoundCap(elements', isDrawing', activeTool', currentPath'))

Files == {[jpeg |-> TRUE, w |-> sz.w, h |-> sz.h] : sz \in UploadSizes}
             \cup {[jpeg |-> FALSE, w |-> 0, h |-> 0]}

\* One action per event: the handler, then the redraw of the new state.
Undo == onUndo /\ Redraw /\ UNCHANGED exportVars
Redo == onRedo /\ Redraw /\ UNCHANGED exportVars
Clear == onClear /\ Redraw /\ UNCHANGED exportVars
SelectTool ==
    \E t \in Tools : setActiveTool(t) /\ Redraw /\ UNCHANGED exportVars
FileChange ==
    \E file \in Files : handleFileChange(file) /\ Redraw /\ UNCHANGED exportVars
ImageLoaded == imageOnLoad /\ Redraw /\ UNCHANGED exportVars
PointerDown ==
    \E pos \in Points, url \in PromptAnswers :
        handleMouseDown(pos, url) /\ Redraw /\ UNCHANGED exportVars
PointerMove ==
    \E pos \in Points : handleMouseMove(pos) /\ Redraw /\ UNCHANGED exportVars
PointerUp == handleMouseUp /\ Redraw /\ UNCHANGED exportVars
TextInput ==
    \E v \in TextValues : textOnChange(v) /\ Redraw /\ UNCHANGED exportVars
TextBlur == textOnBlur /\ Redraw /\ UNCHANGED exportVars

Next ==
    \/ Undo
    \/ Redo
    \/ Clear
    \/ SelectTool
    \/ FileChange
    \/ ImageLoaded
    \/ PointerDown
    \/ PointerMove
    \/ PointerUp
    \/ TextInput
    \/ TextBlur

Spec == Init /\ [][Next]_vars

\* The same machine started after one drawing gesture: a scene of one shape,
\* committed as the second snapshot, the select tool chosen.  It leaves the
\* gesture budget for selecting the shape and then resizing it.
SeedScenes ==
    {<<RectEl(0, 0, 24, 18, currentColor)>>,
     <<CircleEl(4, 3, 5, currentColor)>>}

InitSeeded ==
    /\ elements \in SeedScenes
    /\ history = <<(<<>>), elements>>
    /\ historyIndex = 1
    /\ activeTool = "select"
    /\ pendingUpload = Null
    /\ isDrawing = FALSE
    /\ isDragging = FALSE
    /\ isResizing = "null"
    /\ startPos = Null
    /\ currentPos = Null
    /\ currentPath = <<>>
    /\ editingText = Null
    /\ selectedIndex = -1
    /\ initialElementState = Null
    /\ blurDue = FALSE
    /\ lineCapRound = FALSE
    /\ crashed = FALSE
    /\ gestures = 0
    /\ InitExportVars

SpecSeeded == InitSeeded /\ [][Next]_vars

\* A session with two committed shapes, one on top of the other: the rectangle
\* drawn from (0,0) to (24,18), then the circle drawn from (4,3) to (0,0).
StackedScene ==
    <<RectEl(0, 0, 24, 18, currentColor), CircleEl(4, 3, 5, currentColor)>>

InitStacked ==
    /\ elements = StackedScene
    /\ history = <<(<<>>), SubSeq(StackedScene, 1, 1), StackedScene>>
    /\ historyIndex = 2
    /\ activeTool = "select"
    /\ pendingUpload = Null
    /\ isDrawing = FALSE
    /\ isDragging = FALSE
    /\ isResizing = "null"
    /\ startPos = Null
    /\ currentPos = Null
    /\ currentPath = <<>>
    /\ editingText = Null
    /\ selectedIndex = -1
    /\ initialElementState = Null
    /\ blurDue = FALSE
    /\ lineCapRound = FALSE
    /\ crashed = FALSE
    /\ gestures = 0
    /\ InitExportVars

SpecStacked == InitStacked /\ [][Next]_vars

\* ------------------------------------------------------------------ export
MaxExports == 2        \* export requests in a behaviour

\* JSON.stringify writes null for NaN and for an array entry that is undefined
JsonNull == [type |-> "null"]

\* in a scene NaN occurs only as the x and y of a dragged path
JsonElement(el) ==
    IF el.type \in {"hole", "undefined"} THEN JsonNull
    ELSE IF el.type = "path" /\ "x" \in DOMAIN el
    THEN [el EXCEPT !.x = "null", !.y = "null"]
    ELSE el

\* JSON.stringify(elements) as the server's JSON parser reads it back
JsonScene(els) == [i \in 1..Len(els) |-> JsonElement(els[i])]

\* the elements of a scene that are images, by position
ImageIndexes(els) == {i \in 1..Len(els) : els[i].type = "image"}

\* A request: the fields of its JSON body that are there, and the image
\* sources of it that loadImage cannot resolve while it is served.
Request(hasW, w, hasH, h, hasEls, els, bad, page) ==
    [hasWidth |-> hasW, width |-> w, hasHeight |-> hasH, height |-> h,
     hasElements |-> hasEls, elements |-> els, unloadable |-> bad,
     fromPage |-> page]

\* handleExport: POST { width, height, elements } of the render it was made in
handleExport ==
    /\ ToolbarReady
    /\ exportReq = Null
    /\ exports < MaxExports
    /\ exports' = exports + 1
    /\ \E bad \in SUBSET ImageIndexes(elements) :
           exportReq' = Request(TRUE, canvasSize.width, TRUE, canvasSize.height,
                                TRUE, JsonScene(elements), bad, TRUE)
    /\ exportRes' = Null
    /\ UNCHANGED <<canvasSize, exportOutcome, serverUp>>

\* the width input of Controls: Number(e.target.value)
CanvasWidths == {0, 800}

setWidth(w) ==
    /\ ToolbarReady
    /\ canvasSize' = [canvasSize EXCEPT !.width = w]
    /\ UNCHANGED <<exportReq, exportRes, exportOutcome, serverUp, exports>>

\* bodies that other clients of the endpoint send
DirectScenes ==
    {<<>>,
     <<RectEl(0, 0, 4, 3, currentColor), JsonNull>>,
     <<RectEl(0, 0, 4, 3, currentColor),
       ImageEl(4, 3, PromptImageSize, PromptImageSize, "http://img"),
       PathEl(<<Point(0, 0)>>, currentColor, currentStrokeWidth),
       PathEl(<<Point(0, 0), Point(4, 3)>>, currentColor, currentStrokeWidth)>>}

DirectRequests ==
    {Request(hw, w, hh, 600, he, els, bad, FALSE) :
        hw \in BOOLEAN, w \in {0, 800}, hh \in BOOLEAN, he \in BOOLEAN,
        els \in DirectScenes, bad \in {{}, {2}}}

\* a field that is missing has no value: one record stands for each such body
directRequest(req) ==
    /\ exportReq = Null
    /\ exports < MaxExports
    /\ exports' = exports + 1
    /\ req.unloadable \subseteq ImageIndexes(req.elements)
    /\ req.hasWidth \/ req.width = 800
    /\ req.hasElements \/ req.elements = <<>>
    /\ exportReq' = req
    /\ exportRes' = Null
    /\ UNCHANGED <<canvasSize, exportOutcome, serverUp>>

\* the validation of the body without its !elements
InvalidSizeOnly(req) ==
    \/ ~req.hasWidth \/ req.width = 0
    \/ ~req.hasHeight \/ req.height = 0

\* !width || !height || !elements: a missing field or a 0 is falsy, [] is not
Invalid(req) ==
    \/ ~req.hasWidth \/ req.width = 0
    \/ ~req.hasHeight \/ req.height = 0
    \/ ~req.hasElements

\* what drawElements has done so far: the drawing calls on the surface, the
\* console.error lines, and whether it threw
NothingDrawn == [ops |-> <<>>, logged |-> <<>>, threw |-> FALSE]

Paint(acc, op, el) == [acc EXCEPT !.ops = Append(@, [op |-> op, el |-> el])]

\* loadImage without the try and catch around it: the rejection leaves the loop
imageLoadFailureThrows(acc, el) == [acc EXCEPT !.threw = TRUE]

\* the catch around loadImage and drawImage: console.error, then go on
imageLoadFailure(acc, el) == [acc EXCEPT !.logged = Append(@, el.src)]

\* drawElements from element i on
RECURSIVE drawElements(_, _, _, _)
drawElements(els, bad, i, acc) ==
    IF acc.threw \/ i > Len(els) THEN acc
    ELSE LET el == els[i]
             next ==
                 IF el = JsonNull THEN [acc EXCEPT !.threw = TRUE]
                 ELSE IF el.type = "rect" THEN Paint(acc, "fillRect", el)
                 ELSE IF el.type = "circle" THEN Paint(acc, "fill", el)
                 ELSE IF el.type = "text" THEN Paint(acc, "fillText", el)
                 ELSE IF el.type = "path"
                 THEN IF Len(el.points) < 2 THEN acc ELSE Paint(acc, "stroke", el)
                 ELSE IF el.type = "image"
                 THEN IF i \in bad THEN imageLoadFailure(acc, el)
                      ELSE Paint(acc, "drawImage", el)
                 ELSE acc
         IN  drawElements(els, bad, i + 1, next)

\* new PDFDocument() with autoFirstPage left on: a page of the library's
\* default size (A4, in points) comes before the one of addPage
pdfPagesWithFirstPage(req) ==
    <<[width |-> 595, height |-> 842],
      [width |-> req.width, height |-> req.height]>>

\* createCanvas(width, height): the surface drawElements paints on
createCanvas(req) == [width |-> req.width, height |-> req.height]

\* new PDFDocument({ autoFirstPage: false }), addPage({ size: [width, height] })
pdfPages(req) == <<[width |-> req.width, height |-> req.height]>>

\* doc.image(buffer, 0, 0, { width, height }): the PNG of the surface
pdfImages(req) ==
    <<[x |-> 0, y |-> 0, width |-> req.width, height |-> req.height,
       of |-> createCanvas(req)]>>

\* POST /export/pdf.  assemblyThrows: canvas.toBuffer or doc.image throws.
\* The response: status, Content-Type, whether Content-Disposition names the
\* PDF, the body, and what was created on the way.
postExportPdf(req, assemblyThrows) ==
    IF Invalid(req)
    THEN [status |-> 400, contentType |-> "application/json",
          disposition |-> FALSE, body |-> "error",
          surface |-> FALSE, document |-> FALSE, pages |-> <<>>,
          images |-> <<>>, drawn |-> NothingDrawn, strayBytes |-> FALSE]
    ELSE LET drawn == IF req.hasElements
                      THEN drawElements(req.elements, req.unloadable, 1, NothingDrawn)
                      ELSE [NothingDrawn EXCEPT !.threw = TRUE]
         IN  IF drawn.threw
             THEN [status |-> 500, contentType |-> "application/json",
                   disposition |-> FALSE, body |-> "error",
                   surface |-> TRUE, document |-> FALSE, pages |-> <<>>,
                   images |-> <<>>, drawn |-> drawn, strayBytes |-> FALSE]
             ELSE IF assemblyThrows
             \* the headers of lines 88-89 are set and stay: res.json keeps a
             \* Content-Type that is there; the document, piped to the response,
             \* writes what it holds after the response has ended
             THEN [status |-> 500, contentType |-> "application/pdf",
                   disposition |-> TRUE, body |-> "error",
                   surface |-> TRUE, document |-> TRUE,
                   pages |-> pdfPages(req), images |-> <<>>,
                   drawn |-> drawn, strayBytes |-> TRUE]
             ELSE [status |-> 200, contentType |-> "application/pdf",
                   disposition |-> TRUE, body |-> "pdf",
                   surface |-> TRUE, document |-> TRUE,
                   pages |-> pdfPages(req), images |-> pdfImages(req),
                   drawn |-> drawn, strayBytes |-> FALSE]

\* the server takes the request in flight.  A write to the ended response
\* raises an error event on it that nothing listens to: the process may stop.
serverHandle ==
    /\ serverUp
    /\ exportReq # Null
    /\ exportRes = Null
    /\ \E assemblyThrows \in BOOLEAN :
           /\ exportRes' = postExportPdf(exportReq, assemblyThrows)
           /\ serverUp' \in (IF exportRes'.strayBytes THEN {TRUE, FALSE} ELSE {TRUE})
    /\ UNCHANGED <<canvasSize, exportReq, exportOutcome, exports>>

\* handleExport after the await: a failed fetch and a status that is not ok
\* end in an alert, anything else in a download
exportSettled ==
    /\ exportReq # Null
    /\ exportRes # Null \/ ~serverUp
    /\ exportOutcome' =
           IF ~exportReq.fromPage THEN exportOutcome
           ELSE IF exportRes = Null THEN "alert"
           ELSE IF exportRes.status = 200 THEN "download" ELSE "alert"
    /\ exportReq' = Null
    /\ UNCHANGED <<canvasSize, exportRes, serverUp, exports>>

EditorUnchanged ==
    UNCHANGED <<elements, history, historyIndex, activeTool, pendingUpload,
                isDrawing, isDragging, isResizing, startPos, currentPos,
                currentPath, editingText, selectedIndex, initialElementState,
                blurDue, lineCapRound, crashed, gestures>>

Export == handleExport /\ EditorUnchanged
SetWidth == \E w \in CanvasWidths : setWidth(w) /\ EditorUnchanged
DirectRequest == \E req \in DirectRequests : directRequest(req) /\ EditorUnchanged
ServerHandle == serverHandle /\ EditorUnchanged
ExportSettled == exportSettled /\ EditorUnchanged

\* sessions to export from: an empty one, one with an image committed between
\* two shapes, and one whose path was dragged with the select tool
ExportSessions ==
    LET rect == RectEl(0, 0, 4, 3, currentColor)
        image == ImageEl(4, 3, PromptImageSize, PromptImageSize, "http://img")
        circle == CircleEl(4, 3, 5, currentColor)
        path == PathEl(<<Point(0, 0), Point(4, 3)>>, currentColor, currentStrokeWidth)
    IN  {[elements |-> <<>>, history |-> <<(<<>>)>>, historyIndex |-> 0],
         [elements |-> <<rect, image, circle>>,
          history |-> <<(<<>>), <<rect>>, <<rect, image>>, <<rect, image, circle>>>>,
          historyIndex |-> 3],
         [elements |-> <<Dragged(path, 4, 3)>>,
          history |-> <<(<<>>), <<path>>>>,
          historyIndex |-> 1]}

InitExport ==
    /\ \E session \in ExportSessions :
           /\ elements = session.elements
           /\ history = session.history
           /\ historyIndex = session.historyIndex
    /\ activeTool = "select"
    /\ pendingUpload = Null
    /\ isDrawing = FALSE
    /\ isDragging = FALSE
    /\ isResizing = "null"
    /\ startPos = Null
    /\ currentPos = Null
    /\ currentPath = <<>>
    /\ editingText = Null
    /\ selectedIndex = -1
    /\ initialElementState = Null
    /\ blurDue = FALSE
    /\ lineCapRound = RedrawSetsRoundCap(elements, FALSE, "select", <<>>)
    /\ crashed = FALSE
    /\ gestures = 0
    /\ InitExportVars

NextExport ==
    \/ Export
    \/ SetWidth
    \/ DirectRequest
    \/ ServerHandle
    \/ ExportSettled
    \/ Undo
    \/ Redo
    \/ Clear

SpecExport == InitExport /\ [][NextExport]_vars

\* =================================================================== claims

\* C1: whenever no drag or resize gesture is in progress, the displayed scene
\* equals the snapshot at the history cursor.
C1_SceneIsCursorSnapshot ==
    (~isDragging /\ isResizing = "null") => elements = history[historyIndex + 1]

\* C2: the history is never empty and the cursor is a valid index into it.
C2_HistoryCursorValid ==
    /\ Len(history) >= 1
    /\ historyIndex >= 0
    /\ historyIndex <= Len(history) - 1

\* commits followed by undos down to the first snapshot
C2_Witness == Len(history) >= 3 /\ historyIndex = 0

\* C3: every commit turns the history h with cursor c it finds into h[0..c]
\* followed by the committed scene, with the cursor on that last entry.
C3_CommitOnCurrentHistory ==
    [][history' # history =>
          /\ history' = Append(SubSeq(history, 1, historyIndex + 1), elements')
          /\ historyIndex' = Len(history') - 1]_vars

\* C4: undo with the cursor above 0 moves the cursor down by one and shows the
\* snapshot there; at cursor 0 it changes nothing; the snapshots stay as they are.
C4_Undo ==
    [][Undo =>
          /\ history' = history
          /\ IF historyIndex > 0
             THEN historyIndex' = historyIndex - 1 /\ elements' = history[historyIndex]
             ELSE historyIndex' = historyIndex /\ elements' = elements]_vars

\* the cursor is below the last index, where only undo takes it, on its snapshot
C4_Witness ==
    /\ historyIndex < Len(history) - 1
    /\ elements = history[historyIndex + 1]
    /\ elements # history[historyIndex + 2]

\* C5: redo with the cursor below the last index moves the cursor up by one and
\* shows the snapshot there; at the last index it changes nothing; the
\* snapshots stay as they are.
C5_Redo ==
    [][Redo =>
          /\ history' = history
          /\ IF historyIndex < Len(history) - 1
             THEN /\ historyIndex' = historyIndex + 1
                  /\ elements' = history[historyIndex + 2]
             ELSE historyIndex' = historyIndex /\ elements' = elements]_vars

\* the cursor has moved up over an unchanged history since an upload captured
\* both, which only redo does
C5_Witness ==
    /\ pendingUpload # Null
    /\ history = pendingUpload.closure.history
    /\ historyIndex > pendingUpload.closure.historyIndex
    /\ elements = history[historyIndex + 1]
    /\ elements # history[historyIndex]

\* scenes to commit in the round trip, taken from the state at hand
RoundTripScenes ==
    {<<>>, elements, Append(elements, RectEl(0, 0, 4, 3, currentColor))}
        \cup {history[i] : i \in 1..Len(history)}

\* C6: commit(S), then undo, then redo: the scene is S, and the history and
\* the cursor are what they were right after the commit.
C6_RoundTrip ==
    \A S \in RoundTripScenes :
        LET committed == addToHistory(Closure, S)
            back == handleRedo(handleUndo(committed))
        IN  /\ back.elements = S
            /\ back.history = committed.history
            /\ back.historyIndex = committed.historyIndex

\* right after a commit: the cursor is on the last snapshot, which is the
\* scene and differs from the snapshot below it
C6_Witness ==
    /\ historyIndex >= 2
    /\ historyIndex = Len(history) - 1
    /\ elements = history[historyIndex + 1]
    /\ history[historyIndex + 1] # history[historyIndex]

\* the closures a handler can run from: the last render's and a loading upload's
VisibleClosures ==
    {Closure} \cup (IF pendingUpload # Null THEN {pendingUpload.closure} ELSE {})

C8_GestureEndCommits ==
    [][(/\ PointerUp
        /\ isDragging \/ isResizing # "null"
        /\ SelectedElementExists
        /\ initialElementState # Null
        /\ elements[selectedIndex + 1] # initialElementState)
       => (/\ Len(history') = historyIndex + 2
           /\ historyIndex' = historyIndex + 1
           /\ history'[historyIndex' + 1] = elements
           /\ elements' = elements)]_vars

\* C9: a pointerMove leaves the snapshots and the cursor as they are.
C9_MoveKeepsHistory ==
    [][PointerMove => history' = history /\ historyIndex' = historyIndex]_vars

\* mid-resize: a frame has changed the selected element
C9_Witness ==
    /\ isResizing # "null"
    /\ SelectedElementExists
    /\ initialElementState # Null
    /\ elements[selectedIndex + 1] # initialElementState
    /\ elements # history[historyIndex + 1]

\* C10: the pointerUp of a rectangle gesture with width and height both below
\* the minimum, or of a circle gesture with a radius below it, leaves the
\* scene, the history and the cursor as they are.
C10_SmallShapeDiscarded ==
    [][(/\ PointerUp
        /\ isDrawing /\ ~isDragging /\ isResizing = "null"
        /\ startPos # Null /\ currentPos # Null
        /\ \/ /\ activeTool = "rect"
              /\ Abs(currentPos.x - startPos.x) < MinShapeSize
              /\ Abs(currentPos.y - startPos.y) < MinShapeSize
           \/ /\ activeTool = "circle"
              /\ Distance(startPos, currentPos) < MinShapeSize)
       => UNCHANGED pageVars]_vars

\* every path of a scene has at least 2 points
PathsHaveTwoPoints(els) ==
    \A i \in 1..Len(els) : els[i].type = "path" => Len(els[i].points) >= 2

\* C11: every path in the scene and in every snapshot has at least 2 points
\* (a pencil gesture that would give fewer is discarded).
C11_PathsHaveTwoPoints ==
    /\ PathsHaveTwoPoints(elements)
    /\ \A i \in 1..Len(history) : PathsHaveTwoPoints(history[i])

\* C12: while a rectangle is dragged with the select tool, every pointerMove to
\* pos leaves it at its pointerDown position shifted by pos - startPos, with
\* width, height and color as they were, and leaves every other element as it
\* is; the pointerUp that ends the drag leaves the scene as the last move left it.
C12_DragLaw ==
    [][/\ \A pos \in Points :
              (/\ handleMouseMove(pos) /\ Redraw
               /\ activeTool = "select" /\ isDragging
               /\ SelectedElementExists
               /\ initialElementState # Null
               /\ initialElementState.type = "rect")
              => /\ Len(elements') = Len(elements)
                 /\ elements'[selectedIndex + 1] =
                        RectEl(initialElementState.x + (pos.x - startPos.x),
                               initialElementState.y + (pos.y - startPos.y),
                               initialElementState.width,
                               initialElementState.height,
                               initialElementState.color)
                 /\ \A j \in 1..Len(elements) :
                        j # selectedIndex + 1 => elements'[j] = elements[j]
       /\ (PointerUp /\ isDragging) => elements' = elements]_vars

\* a finished drag: the selected rectangle is away from where the snapshot at
\* the cursor has it, with the same size and color, next to an element that is
\* where it was
C12_Witness ==
    /\ ~isDragging /\ selectedIndex >= 0
    /\ Len(elements) >= 2
    /\ selectedIndex < Len(elements)
    /\ Len(history[historyIndex + 1]) = Len(elements)
    /\ LET was == history[historyIndex + 1][selectedIndex + 1]
           now == elements[selectedIndex + 1]
       IN  /\ was.type = "rect" /\ now.type = "rect"
           /\ now.x # was.x /\ now.y # was.y
           /\ now.width = was.width /\ now.height = was.height
           /\ now.color = was.color
    /\ \A j \in 1..Len(elements) :
           j # selectedIndex + 1 => elements[j] = history[historyIndex + 1][j]

\* C13: an eraser pointerDown at pos removes the highest-index element that
\* the eraser's hit test finds at pos and commits the rest, in order, as one
\* snapshot; when nothing is hit, scene, history and cursor stay as they are.
C13_EraserRemovesTopHit ==
    [][\A pos \in Points :
           (handleMouseDown(pos, "") /\ Redraw /\ activeTool = "eraser")
           => LET hits == {i \in 1..Len(elements) :
                              EraserHit(pos, elements[i], lineCapRound)}
              IN  IF hits = {}
                  THEN UNCHANGED pageVars
                  ELSE LET top == CHOOSE i \in hits : \A k \in hits : k <= i
                       IN  /\ elements' = [j \in 1..(Len(elements) - 1) |->
                                  IF j < top THEN elements[j] ELSE elements[j + 1]]
                           /\ history' = Append(SubSeq(history, 1, historyIndex + 1),
                                                elements')
                           /\ historyIndex' = historyIndex + 1]_vars

\* the eraser has taken the circle off the rectangle it lay on: the snapshot
\* below the cursor holds both, the scene and the snapshot at the cursor the
\* rectangle alone
C13_Witness ==
    /\ activeTool = "eraser"
    /\ historyIndex >= 1
    /\ elements = history[historyIndex + 1]
    /\ Len(history[historyIndex]) = 2
    /\ history[historyIndex][2].type = "circle"
    /\ elements = SubSeq(history[historyIndex], 1, 1)

\* C14: when the image of an upload lands, the new scene is the scene at hand
\* with the image appended, and the history is the history at hand up to its
\* cursor followed by that scene: nothing committed while the image was
\* loading is lost or overwritten.
C14_ImageLandsOnCurrentScene ==
    [][ImageLoaded =>
          /\ Len(elements') = Len(elements) + 1
          /\ SubSeq(elements', 1, Len(elements)) = elements
          /\ elements'[Len(elements')].type = "image"
          /\ history' = Append(SubSeq(history, 1, historyIndex + 1), elements')
          /\ historyIndex' = historyIndex + 1]_vars

\* the steps that change which elements the scene holds
ChangesSceneMembers ==
    \/ Undo
    \/ Redo
    \/ Clear
    \/ (PointerDown /\ activeTool = "eraser")

\* C15: after an eraser removal, undo, redo or clear that changed the scene,
\* the selected index is cleared or denotes the element it denoted before.
C15_SelectionFollowsScene ==
    [][(/\ ChangesSceneMembers
        /\ elements' # elements
        /\ SelectedElementExists)
       => \/ selectedIndex' = -1
          \/ /\ selectedIndex' < Len(elements')
             /\ elements'[selectedIndex' + 1] = elements[selectedIndex + 1]]_vars

\* C16: for a selected circle with center (x,y) and radius r (large enough for
\* the four zones to have distinct centers), the corners (x-r,y-r), (x+r,y-r),
\* (x-r,y+r), (x+r,y+r) of its bounding box are found as the handles nw, ne,
\* sw, se.
C16_CircleHandlesAtCenterBox ==
    (/\ SelectedElementExists
     /\ elements[selectedIndex + 1].type = "circle"
     /\ 2 * elements[selectedIndex + 1].radius > HANDLE_SIZE)
    => LET c == elements[selectedIndex + 1]
           r == c.radius
       IN  /\ getResizeHandle(c.x - r, c.y - r, c) = "nw"
           /\ getResizeHandle(c.x + r, c.y - r, c) = "ne"
           /\ getResizeHandle(c.x - r, c.y + r, c) = "sw"
           /\ getResizeHandle(c.x + r, c.y + r, c) = "se"

\* C17: a request that lacks width, height or elements is answered 400 with
\* an error body, and neither a surface nor a document was created for it.
C17_MissingFieldRejected ==
    (/\ exportReq # Null
     /\ exportRes # Null
     /\ ~exportReq.hasWidth \/ ~exportReq.hasHeight \/ ~exportReq.hasElements)
    => /\ exportRes.status = 400
       /\ exportRes.contentType = "application/json"
       /\ exportRes.body = "error"
       /\ ~exportRes.surface
       /\ ~exportRes.document
       /\ exportRes.drawn = NothingDrawn

\* a request with width and height and no elements has been answered
C17_Witness ==
    /\ exportReq # Null
    /\ exportRes # Null
    /\ exportReq.hasWidth /\ exportReq.width # 0
    /\ exportReq.hasHeight /\ exportReq.height # 0
    /\ ~exportReq.hasElements
    /\ exportRes.status = 400

\* the elements of a scene from position i on, without those at the positions in bad
RECURSIVE WithoutFrom(_, _, _)
WithoutFrom(els, bad, i) ==
    IF i > Len(els) THEN <<>>
    ELSE IF i \in bad THEN WithoutFrom(els, bad, i + 1)
    ELSE <<els[i]>> \o WithoutFrom(els, bad, i + 1)

\* the sources of the images at the positions in bad, in scene order
RECURSIVE SourcesFrom(_, _, _)
SourcesFrom(els, bad, i) ==
    IF i > Len(els) THEN <<>>
    ELSE IF i \in bad THEN <<els[i].src>> \o SourcesFrom(els, bad, i + 1)
    ELSE SourcesFrom(els, bad, i + 1)

\* C18: for a valid request whose only failures are image sources that do not
\* load, the drawing calls are those of the scene without these images, in
\* scene order, each failure is logged, and the answer is the PDF.
C18_UnloadableImageSkipped ==
    (/\ exportReq # Null
     /\ ~Invalid(exportReq)
     /\ exportReq.unloadable # {}
     /\ \A i \in 1..Len(exportReq.elements) : exportReq.elements[i] # JsonNull)
    => LET res == postExportPdf(exportReq, FALSE)
           rest == [exportReq EXCEPT
                       !.elements = WithoutFrom(exportReq.elements,
                                                exportReq.unloadable, 1),
                       !.unloadable = {}]
       IN  /\ res.status = 200 /\ res.body = "pdf" /\ res.document
           /\ ~res.drawn.threw
           /\ res.drawn.ops = postExportPdf(rest, FALSE).drawn.ops
           /\ res.drawn.logged =
                  SourcesFrom(exportReq.elements, exportReq.unloadable, 1)
           /\ (exportRes # Null /\ ~exportRes.strayBytes) => exportRes = res

\* a scene with an image between two shapes was exported, the image did not
\* load, and the answer is a PDF with the two shapes drawn
C18_Witness ==
    /\ exportReq # Null
    /\ exportRes # Null
    /\ exportReq.unloadable = {2}
    /\ Len(exportReq.elements) >= 3
    /\ exportRes.status = 200
    /\ Len(exportRes.drawn.ops) = Len(exportReq.elements) - 1
    /\ Len(exportRes.drawn.logged) = 1

\* C19: an answered request has exactly one of three outcomes: 400 with an
\* error body, 500 with an error body, or the complete PDF; the error answers
\* carry no PDF header and no PDF bytes, and the server goes on running.
C19_OneTerminalOutcome ==
    /\ serverUp
    /\ exportRes # Null =>
          \/ /\ exportRes.status = 200
             /\ exportRes.body = "pdf"
             /\ exportRes.contentType = "application/pdf"
          \/ /\ exportRes.status \in {400, 500}
             /\ exportRes.body = "error"
             /\ exportRes.contentType = "application/json"
             /\ ~exportRes.disposition
             /\ ~exportRes.strayBytes

\* C20: an export step leaves scene, history and cursor as they are, and the
\* elements of the request the page sends are the scene at that moment.
C20_ExportLeavesSession ==
    [][/\ (Export \/ ServerHandle \/ ExportSettled) => UNCHANGED pageVars
       /\ Export => exportReq'.elements = elements]_vars

\* C21: a request answered with the PDF has a document of exactly one page of
\* the request's width x height, holding exactly one image, placed at the
\* origin with that width and height and made from a surface of that size.
C21_OnePageOneImage ==
    (exportReq # Null /\ exportRes # Null /\ exportRes.status = 200)
    => LET w == exportReq.width
           h == exportReq.height
       IN  /\ exportRes.surface /\ exportRes.document
           /\ Len(exportRes.pages) = 1
           /\ exportRes.pages[1] = [width |-> w, height |-> h]
           /\ Len(exportRes.images) = 1
           /\ exportRes.images[1].x = 0 /\ exportRes.images[1].y = 0
           /\ exportRes.images[1].width = w /\ exportRes.images[1].height = h
           /\ exportRes.images[1].of = [width |-> w, height |-> h]

\* the page's export of a scene with shapes has been answered with the PDF
C21_Witness ==
    /\ exportReq # Null /\ exportRes # Null
    /\ exportReq.fromPage
    /\ exportReq.elements # <<>>
    /\ exportRes.status = 200
    /\ exportRes.body = "pdf"

\* rectangles of positive width and height, the smallest one included
RectSamples ==
    {RectEl(px, py, w, h, currentColor) :
        px \in {4}, py \in {3}, w \in {1, 24}, h \in {1, 18}}

\* the rectangles of the scene
SceneRects ==
    {el \in {elements[i] : i \in DOMAIN elements} :
        IsElement(el) /\ el.type = "rect"}

\* C22: for every rectangle of width and height at least 1, the point
\* (x + 1, y + 1) is hit and the point (x - 1, y - 1) is not, in the select
\* tool's test and in the eraser's.
C22_RectHitInsideNotOutside ==
    \A R \in RectSamples \cup SceneRects :
        (R.width >= 1 /\ R.height >= 1)
        => /\ SelectHit(Point(R.x + 1, R.y + 1), R, lineCapRound)
           /\ EraserHit(Point(R.x + 1, R.y + 1), R, lineCapRound)
           /\ ~SelectHit(Point(R.x - 1, R.y - 1), R, lineCapRound)
           /\ ~EraserHit(Point(R.x - 1, R.y - 1), R, lineCapRound)

\* a drawn rectangle of positive size has been picked by a select click
C22_Witness ==
    /\ selectedIndex >= 0 /\ selectedIndex < Len(elements)
    /\ isDragging
    /\ IsElement(elements[selectedIndex + 1])
    /\ elements[selectedIndex + 1].type = "rect"
    /\ elements[selectedIndex + 1].width >= 1
    /\ elements[selectedIndex + 1].height >= 1
    /\ elements[selectedIndex + 1] \in SceneRects

\* rectangles and images with a negative width, a negative height or both
NegativeBoxSamples ==
    {RectEl(4, 3, -4, 18, currentColor), RectEl(4, 3, 24, -3, currentColor),
     RectEl(4, 3, -4, -3, currentColor),
     ImageEl(4, 3, -4, 18, "http://img"), ImageEl(24, 18, -24, -18, "data:")}

\* the rectangles and images of the scene with a negative width or height
SceneNegativeBoxes ==
    {el \in {elements[i] : i \in DOMAIN elements} :
        /\ IsElement(el)
        /\ el.type \in {"rect", "image"}
        /\ (el.width < 0 \/ el.height < 0)}

\* the same region with non-negative sizes
NormalizedBox(el) ==
    [el EXCEPT !.x = IF el.x + el.width < el.x THEN el.x + el.width ELSE el.x,
               !.y = IF el.y + el.height < el.y THEN el.y + el.height ELSE el.y,
               !.width = Abs(el.width),
               !.height = Abs(el.height)]

\* the points the law is tried at: the pointer positions and the box's corners
BoxProbes(el) ==
    Points \cup {Point(el.x + el.width, el.y + el.height),
                 Point(el.x + el.width, el.y),
                 Point(el.x, el.y + el.height),
                 Point(el.x + 1, el.y + 1),
                 Point(el.x - 1, el.y - 1)}

\* the law of normalization at one element and one point
SameAsNormalized(p, R, cap) ==
    /\ SelectHit(p, R, cap) = SelectHit(p, NormalizedBox(R), cap)
    /\ EraserHit(p, R, cap) = EraserHit(p, NormalizedBox(R), cap)

\* the law on the sample boxes
SamplesSameAsNormalized ==
    \A R \in NegativeBoxSamples : \A p \in BoxProbes(R) :
        SameAsNormalized(p, R, TRUE)

\* C24: a rectangle or image with a negative width or height answers every
\* hit test, select's and the eraser's, exactly as the box with
\* x = min(x, x + w), y = min(y, y + h), width |w| and height |h| does.
C24_NegativeBoxNormalized ==
    /\ SamplesSameAsNormalized
    /\ \A R \in SceneNegativeBoxes : \A p \in BoxProbes(R) :
          SameAsNormalized(p, R, lineCapRound)

\* a rectangle drawn towards the upper left has been picked by a select click
\* inside its region
C24_Witness ==
    /\ selectedIndex >= 0 /\ selectedIndex < Len(elements)
    /\ isDragging
    /\ elements[selectedIndex + 1] \in SceneNegativeBoxes
    /\ elements[selectedIndex + 1].width < 0
    /\ elements[selectedIndex + 1].height < 0
    /\ startPos # Null
    /\ SelectHit(startPos, NormalizedBox(elements[selectedIndex + 1]), lineCapRound)

\* A session with one committed circle: the one a click of the circle tool at
\* (4,3) leaves (radius 0), or the one drawn from (0,0) to (4,3) (radius 5).
CircleScenes ==
    {<<CircleEl(4, 3, 0, currentColor)>>,
     <<CircleEl(0, 0, 5, currentColor)>>}

InitCircles ==
    /\ elements \in CircleScenes
    /\ history = <<(<<>>), elements>>
    /\ historyIndex = 1
    /\ activeTool = "select"
    /\ pendingUpload = Null
    /\ isDrawing = FALSE
    /\ isDragging = FALSE
    /\ isResizing = "null"
    /\ startPos = Null
    /\ currentPos = Null
    /\ currentPath = <<>>
    /\ editingText = Null
    /\ selectedIndex = -1
    /\ initialElementState = Null
    /\ blurDue = FALSE
    /\ lineCapRound = FALSE
    /\ crashed = FALSE
    /\ gestures = 0
    /\ InitExportVars

SpecCircles == InitCircles /\ [][Next]_vars

\* C23: the center of every circle of the scene is hit, in the select tool's
\* test and in the eraser's.
C23_CircleCenterHit ==
    \A i \in DOMAIN elements :
        (IsElement(elements[i]) /\ elements[i].type = "circle")
        => /\ SelectHit(Point(elements[i].x, elements[i].y), elements[i],
                        lineCapRound)
           /\ EraserHit(Point(elements[i].x, elements[i].y), elements[i],
                        lineCapRound)

\* the distance from pos to the nearest segment of the path is at most margin
WithinDistance(pos, el, margin) ==
    \E i \in 1..(Len(el.points) - 1) :
        NearSegment(pos, el.points[i], el.points[i + 1], 2 * margin)

\* C25: a path of two or more distinct points is hit at a point exactly when
\* the point's distance to the nearest segment is at most strokeWidth plus
\* the tool's padding: 10 for select, 5 for the eraser.
C25_PathHitWithinPadding ==
    \A i \in DOMAIN elements :
        (/\ IsElement(elements[i])
         /\ elements[i].type = "path"
         /\ \E k \in DOMAIN elements[i].points :
               elements[i].points[k] # elements[i].points[1])
        => \A p \in Points :
              /\ SelectHit(p, elements[i], lineCapRound)
                    <=> WithinDistance(p, elements[i],
                            elements[i].strokeWidth + SelectHitPadding)
              /\ EraserHit(p, elements[i], lineCapRound)
                    <=> WithinDistance(p, elements[i],
                            elements[i].strokeWidth + EraserHitPadding)

\* C26: a clear commits the empty scene: the snapshots above the cursor are
\* dropped, the empty scene is appended, the cursor is on it and the scene is
\* empty; one undo from there puts the cursor back where it was and shows the
\* snapshot that was at the cursor before the clear.
C26_ClearCommitsEmptyScene ==
    [][Clear =>
        /\ elements' = <<>>
        /\ history' = Append(SubSeq(history, 1, historyIndex + 1), <<>>)
        /\ historyIndex' = Len(history') - 1
        /\ historyIndex' = historyIndex + 1
        /\ LET after == [elements |-> elements', history |-> history',
                         historyIndex |-> historyIndex']
           IN  /\ handleUndo(after).historyIndex = historyIndex
               /\ handleUndo(after).elements = history[historyIndex + 1]
               /\ handleUndo(after).history = history']_vars

\* a clear after an undo: the snapshot list a pending upload captured before
\* still has the undone snapshot where the empty scene now stands
C26_Witness ==
    /\ pendingUpload # Null
    /\ elements = <<>>
    /\ historyIndex = Len(history) - 1
    /\ historyIndex >= 1
    /\ history[historyIndex + 1] = <<>>
    /\ Len(pendingUpload.closure.history) >= Len(history)
    /\ pendingUpload.closure.history[historyIndex + 1] # <<>>
    /\ SubSeq(pendingUpload.closure.history, 1, historyIndex)
          = SubSeq(history, 1, historyIndex)

\* A toolbar button activated from the keyboard (Tab, then Enter or Space)
\* runs handleToolClick whatever the pointer is doing on the canvas: the
\* handler has no condition on the gesture in progress.  With the text input
\* focused the same keys would blur it first, so that case is left to TextBlur.
setActiveToolByKey(t) ==
    /\ ~crashed /\ ~blurDue
    /\ editingText = Null
    /\ isDrawing \/ isDragging \/ isResizing # "null"
    /\ activeTool' = t
    /\ UNCHANGED <<pageVars, pendingUpload, canvasVars, blurDue, gestures>>

\* the tools tried from the keyboard
KeyTools == {"select", "rect"}

SelectToolByKey ==
    \E t \in KeyTools : setActiveToolByKey(t) /\ Redraw /\ UNCHANGED exportVars

\* the canvas and the toolbar's tool buttons, by pointer and by keyboard
NextKeys ==
    \/ SelectTool
    \/ SelectToolByKey
    \/ PointerDown
    \/ PointerMove
    \/ PointerUp
    \/ TextInput
    \/ TextBlur

\* the seeded session with tool selections allowed during a gesture
SpecKeys == InitSeeded /\ [][NextKeys]_vars

\* C27: after every pointerUp the canvas is idle: not drawing, not dragging,
\* not resizing.  In no reachable state can a pointerUp end in a state that is
\* drawing, dragging or resizing, the pointerUp that changes nothing included.
C27_PointerUpIdles ==
    ~ENABLED (PointerUp /\ (isDrawing' \/ isDragging' \/ isResizing' # "null"))

\* the number of gestures and edits in progress
ActiveModes ==
    (IF isDrawing THEN 1 ELSE 0) + (IF isDragging THEN 1 ELSE 0)
    + (IF isResizing # "null" THEN 1 ELSE 0)
    + (IF editingText # Null THEN 1 ELSE 0)

\* C28: at most one of drawing, dragging, resizing and text editing is active.
C28_OneModeAtATime == ActiveModes <= 1

\* the indexes of the elements whose select hit test holds pos
SelectHits(pos) ==
    {i \in 0..(Len(elements) - 1) :
        /\ IsElement(elements[i + 1])
        /\ SelectHit(pos, elements[i + 1], lineCapRound)}

\* no handle of the selected element is hit at pos
NoHandleHit(pos) ==
    ~SelectedElementExists
    \/ getResizeHandle(pos.x, pos.y, elements[selectedIndex + 1]) = "null"

\* C29: a pointerDown with the select tool that hits no resize handle selects
\* the highest-index element whose hit test holds the point and starts
\* dragging it; when no element holds the point the selection is cleared, no
\* drag starts and the scene is unchanged.
C29_SelectPicksTopmost ==
    [][\A pos \in Points :
        (/\ activeTool = "select"
         /\ NoHandleHit(pos)
         /\ \E url \in PromptAnswers : handleMouseDown(pos, url) /\ Redraw)
        => IF SelectHits(pos) # {}
           THEN /\ selectedIndex' \in SelectHits(pos)
                /\ \A i \in SelectHits(pos) : i <= selectedIndex'
                /\ isDragging'
                /\ startPos' = pos
                /\ initialElementState' = elements[selectedIndex' + 1]
                /\ UNCHANGED pageVars
           ELSE /\ selectedIndex' = -1
                /\ isDragging' = isDragging
                /\ UNCHANGED pageVars]_vars

\* both shapes hold the press point and the upper one, the circle, was taken
C29_Witness ==
    /\ Len(elements) = 2
    /\ isDragging
    /\ selectedIndex = 1
    /\ startPos # Null
    /\ SelectHits(startPos) = {0, 1}
    /\ initialElementState = elements[2]

\* the corners of the bounding box of a rectangle, image or circle: the box
\* from (x, y) to (x + width, y + height), and for a circle the box around the
\* center from (x - r, y - r) to (x + r, y + r)
BoxCorners(el) ==
    LET left == IF el.type = "circle" THEN el.x - el.radius ELSE el.x
        top == IF el.type = "circle" THEN el.y - el.radius ELSE el.y
        right == IF el.type = "circle" THEN el.x + el.radius ELSE el.x + el.width
        bottom == IF el.type = "circle" THEN el.y + el.radius ELSE el.y + el.height
    IN  [nw |-> Point(left, top), ne |-> Point(right, top),
         sw |-> Point(left, bottom), se |-> Point(right, bottom)]

\* the handles whose zone, the square of HANDLE_SIZE to each side of the
\* corner, holds pos
ZonesAt(pos, el) ==
    {h \in {"nw", "ne", "sw", "se"} :
        /\ Abs(pos.x - BoxCorners(el)[h].x) <= HANDLE_SIZE
        /\ Abs(pos.y - BoxCorners(el)[h].y) <= HANDLE_SIZE}

\* C30: with the select tool and a rectangle, circle or image selected, a
\* pointerDown inside one of its handle zones enters Resizing with a handle
\* whose zone holds the point, keeps the selection and takes the selected
\* element as the original, whatever lies on top there; with a text or a path
\* selected no pointerDown enters Resizing.
C30_HandleBeforeHitTest ==
    [][\A pos \in Points :
        (/\ activeTool = "select"
         /\ SelectedElementExists
         /\ \E url \in PromptAnswers : handleMouseDown(pos, url) /\ Redraw)
        => LET el == elements[selectedIndex + 1]
           IN  IF el.type \in {"text", "path"}
               THEN isResizing' = isResizing
               ELSE ZonesAt(pos, el) # {}
                    => /\ isResizing' \in ZonesAt(pos, el)
                       /\ startPos' = pos
                       /\ initialElementState' = el
                       /\ selectedIndex' = selectedIndex
                       /\ UNCHANGED pageVars]_vars

\* the geometry a resize with handle h and pointer delta (dx, dy) gives the
\* box el: se (x, y, w+dx, h+dy), sw (x+dx, y, w-dx, h+dy),
\* nw (x+dx, y+dy, w-dx, h-dy), ne (x, y+dy, w+dx, h-dy)
ResizeTable(el, h, dx, dy) ==
    LET nx == IF h \in {"sw", "nw"} THEN el.x + dx ELSE el.x
        ny == IF h \in {"nw", "ne"} THEN el.y + dy ELSE el.y
        nw == IF h \in {"se", "ne"} THEN el.width + dx ELSE el.width - dx
        nh == IF h \in {"se", "sw"} THEN el.height + dy ELSE el.height - dy
    IN  [el EXCEPT !.x = nx, !.y = ny, !.width = nw, !.height = nh]

\* C31: while a rectangle or image is being resized with handle h, a
\* pointerMove at delta (dx, dy) from the anchor puts at the selected index
\* the element as it was at pointerDown with the geometry of the table, and
\* leaves every other element of the scene as it was.
C31_ResizeFromOriginal ==
    [][\A pos \in Points :
        (/\ isResizing # "null"
         /\ selectedIndex # -1
         /\ startPos # Null
         /\ initialElementState # Null
         /\ initialElementState.type \in {"rect", "image"}
         /\ handleMouseMove(pos) /\ Redraw)
        => /\ Len(elements') = Len(elements)
           /\ selectedIndex < Len(elements)
           /\ elements'[selectedIndex + 1]
                 = ResizeTable(initialElementState, isResizing,
                               pos.x - startPos.x, pos.y - startPos.y)
           /\ \A i \in DOMAIN elements :
                 i # selectedIndex + 1 => elements'[i] = elements[i]]_vars

\* the floor the claim gives every resized dimension
ResizeFloor == 5

\* no dimension of el is below the floor
AtLeastFloor(el) ==
    IF el.type = "circle" THEN el.radius >= ResizeFloor
    ELSE el.width >= ResizeFloor /\ el.height >= ResizeFloor

\* C32: a pointerMove during the resize of a rectangle, image or circle
\* leaves the element with width and height, or radius, of at least 5, or
\* else leaves it with the geometry of the frame before.
C32_ResizeKeepsFloor ==
    [][\A pos \in Points :
        (/\ isResizing # "null" /\ ~isDragging
         /\ SelectedElementExists
         /\ startPos # Null
         /\ initialElementState # Null
         /\ initialElementState.type \in {"rect", "image", "circle"}
         /\ handleMouseMove(pos) /\ Redraw)
        => /\ selectedIndex < Len(elements')
           /\ \/ AtLeastFloor(elements'[selectedIndex + 1])
              \/ elements'[selectedIndex + 1] = elements[selectedIndex + 1]]_vars

\* C33: during a select-tool drag that started on a path, no pointerMove
\* changes the scene: the path keeps its points, color and strokeWidth and
\* gets no other field, and the other elements stay as they are.
C33_PathDragChangesNothing ==
    [][\A pos \in Points :
        (/\ activeTool = "select"
         /\ isDragging /\ isResizing = "null"
         /\ SelectedElementExists
         /\ startPos # Null
         /\ initialElementState # Null
         /\ initialElementState.type = "path"
         /\ elements[selectedIndex + 1] = initialElementState
         /\ handleMouseMove(pos) /\ Redraw)
        => UNCHANGED pageVars]_vars

\* a buffer that is empty or holds only blanks
Blank(v) == \A i \in DOMAIN v : v[i] = " "

\* C34: a text-tool pointerDown opens the editor at the click position with
\* an empty buffer and commits nothing; typing commits nothing; completion
\* with a buffer that is not blank commits the scene with one text element
\* more, holding the buffer at the editor's position, and completion with a
\* blank buffer commits nothing; both close the editor and leave the canvas
\* idle.
C34_TextCommitsOnCompletion ==
    [][/\ \A pos \in Points :
             (activeTool = "text" /\ handleMouseDown(pos, "") /\ Redraw)
             => /\ editingText' = [x |-> pos.x, y |-> pos.y, value |-> <<>>]
                /\ ~isDrawing'
                /\ UNCHANGED pageVars
       /\ TextInput
             => /\ editingText' # Null
                /\ editingText'.x = editingText.x
                /\ editingText'.y = editingText.y
                /\ UNCHANGED pageVars
       /\ TextBlur
             => /\ editingText' = Null
                /\ ~isDrawing' /\ ~isDragging' /\ isResizing' = "null"
                /\ IF Blank(editingText.value)
                   THEN UNCHANGED pageVars
                   ELSE /\ elements'
                             = Append(elements,
                                  [type |-> "text", x |-> editingText.x,
                                   y |-> editingText.y,
                                   text |-> editingText.value,
                                   fontSize |-> DefaultFontSize,
                                   color |-> currentColor])
                        /\ history' = Append(SubSeq(history, 1, historyIndex + 1),
                                             elements')
                        /\ historyIndex' = historyIndex + 1]_vars

\* a text typed after a click at (4,3) has been committed there and the
\* editor is closed
C34_Witness ==
    /\ editingText = Null
    /\ elements # <<>>
    /\ elements[Len(elements)].type = "text"
    /\ elements[Len(elements)].text = <<"H", "i">>
    /\ elements[Len(elements)].x = 4 /\ elements[Len(elements)].y = 3
    /\ history[historyIndex + 1] = elements
    /\ ~isDrawing /\ ~isDragging /\ isResizing = "null"

SameHit(el, cap) ==
    \A p \in Points : SelectHit(p, el, cap) <=> EraserHit(p, el, cap)

\* C36: the select tool's hit test and the eraser's are one relation: on every
\* element of the scene and at every point the one holds exactly when the
\* other does.
C36_OneHitRelation ==
    \A i \in DOMAIN elements :
        IsElement(elements[i]) => SameHit(elements[i], lineCapRound)

====
